---- MODULE Spec2Model ----
(***************************************************************************)
(* Model of the asynchronous dispatch engine of fbaube/mlog: the           *)
(* coreLogger (open flag, lock, entries channel, Targets), the Logger.Log  *)
(* producer path, the background process() loop, and coreLogger.Open /     *)
(* Close, together with the Target side of the shutdown handshake          *)
(* (Process(nil) sends on the target's unbuffered close channel, Close()   *)
(* receives from it).                                                      *)
(*                                                                         *)
(* Go channels are modelled with their wait queues: a send hands the value *)
(* to a parked receiver, else appends to the buffer when there is room,    *)
(* else parks the sender; a receive serves a parked sender, else takes the *)
(* head of the buffer, else parks the receiver.  The channel expression    *)
(* l.entries is evaluated when the operation starts, so a goroutine parked *)
(* on a channel stays on that channel when Open replaces l.entries.        *)
(***************************************************************************)
EXTENDS Integers, Sequences, FiniteSets, TLC

\* ---------------------------------------------------------------- bounds
NumThreads == 2
NumTargets == 2
\* Entries created, plus re-opens (Open calls after the first that make a
\* channel), plus SetMaxLevel calls.
MaxWork == 2
\* Re-opens in the runs that start from InitReopen.
MaxReopens == 1
MaxBuf == 1
\* Logger values in a run, the root logger included.
MaxViews == 3
\* Entries in the runs of the package's Example: Info, Dbg, Error.
MaxExample == 3

\* ------------------------------------------------------------- constants
LevelPanic == 2
LevelError == 3
LevelOkay == 5
LevelInfo == 6
LevelDebug == 8

Threads == 1..NumThreads
TargetIds == 1..NumTargets
ChanIds == 1..(MaxWork + 1)
LogLevels == {LevelInfo}
MaxLevels == {LevelError, LevelInfo}
AllLevels == LevelPanic..LevelDebug
\* The category and subcategory labels the calls are given.
Labels == {"[00]", "[01]"}
\* The formatter argument of GetLogger: none, or a formatter of the caller's.
NoFormatter == "none"
Formatters == {NoFormatter, "CustomFormatter"}

\* The nil *Entry that Close sends as the shutdown signal.
NilEntry == [id |-> 0, level |-> 0, by |-> 0]

Entry(i, lvl, t) == [id |-> i, level |-> lvl, by |-> t]

VARIABLES
    ErrorWriter,     \* coreLogger.ErrorWriter is set (non-nil)
    BufferSize,      \* coreLogger.BufferSize
    CallStackDepth,  \* coreLogger.CallStackDepth
    MaxLevel,        \* coreLogger.MaxLevel
    Registered,      \* the Targets the application attached before Open
    kind,            \* per target: "console" (Close waits for Process(nil)) or "plain"
    Targets,         \* coreLogger.Targets
    open,            \* coreLogger.open
    lock,            \* coreLogger.lock: 0 free, else the holding thread
    entries,         \* coreLogger.entries: 0 nil, else the id of the current channel
    chans,           \* per channel: buffer, parked senders, parked receivers
    sent,            \* per channel: every value that entered it, in order (history)
    tch,             \* per target: its close channel (parked senders and receivers)
    th,              \* per application thread: position and locals of its current call
    loops,           \* per Open: the process() goroutine it started
    procLog,         \* per target: the arguments of its Process calls, in call order
    openCalls,       \* per target: number of Open calls it received
    closeCalls,      \* per target: number of Close calls started
    closeRets,       \* per target: number of Close calls that returned
    errOut,          \* number of messages written to the error writer
    nextId,          \* id of the next Entry to be created
    filt,            \* per target: Filter.MaxLevel
    faulty,          \* the targets whose destination may refuse a write
    written,         \* per target: the entries Process wrote to its destination
    di,              \* per target: its embedded DetailsInfo
    label,           \* per target: its own Category and Subcategory fields
    blockAt,         \* per target: Process calls received when the last
                     \* StartLogDetailsBlock returned, 0 if none (history)
    flushLog,        \* the targets whose Flush was called, in call order
    views,           \* the Logger values: core, Category, Formatter
    budget           \* what the run may still do (a bound, not program state):
                     \* work: entries, re-opens and SetMaxLevel calls; reopens

vars == <<ErrorWriter, BufferSize, CallStackDepth, MaxLevel, Registered, kind,
          Targets, open, lock, entries, chans, sent, tch, th, loops, procLog,
          openCalls, closeCalls, closeRets, errOut, nextId, budget,
          filt, faulty, written, di, label, blockAt, flushLog, views>>

config == <<ErrorWriter, BufferSize, CallStackDepth, Registered, kind, filt,
           faulty>>

\* The state of the details blocks of the targets.
details == <<di, label, blockAt>>
targetObs == <<procLog, openCalls, closeCalls, closeRets>>

\* ------------------------------------------------------------ helpers
Range(s) == {s[i] : i \in 1..Len(s)}

\* Prefixes of <<1, 2, ..., NumTargets>>: the target lists an application registers.
Prefix(n) == [i \in 1..n |-> i]

\* A thread's position and locals.  arg is the level a Log call was given, ent
\* the value it sends, ch the channel l.entries named when Close was called and
\* pre the number of values that channel had taken by then, tl and idx the range
\* over the targets.  The positions "log_dropped",
\* "open_err", "open_noop", "close_noop" and "close_done" are the return
\* statements.
IdleThread == [pc |-> "idle", arg |-> 0, ent |-> NilEntry,
               ch |-> 0, tl |-> <<>>, idx |-> 0, pre |-> 0]

ReturnPcs == {"log_dropped", "open_err", "open_noop", "close_noop", "close_done",
              "flush_done", "setcat_done", "setsub_done", "start_done",
              "closeblock_done", "quote_done", "getlogger_done"}

\* One unit of work is spent.
Spend(b) == [b EXCEPT !.work = @ - 1]

NoLoop == [pc |-> "none", ch |-> 0, entry |-> NilEntry, tl |-> <<>>, idx |-> 0]

EmptyChan == [buf |-> <<>>, sendq |-> <<>>, recvq |-> <<>>]

EmptyTch == [sendq |-> <<>>, recvq |-> <<>>]

\* The zero value of DetailsInfo.
ZeroDetails == [DoingDetails |-> FALSE, MinLogLevel |-> 0,
                Category |-> "", Subcategory |-> ""]

\* The target's own Category and Subcategory, empty after construction.
NoLabel == [Category |-> "", Subcategory |-> ""]

\* NewLogger: `pCoreLogger = &Logger{logger, "", DefaultFormatter}`.
RootLogger == [core |-> 1, Category |-> "", Formatter |-> "DefaultFormatter"]

\* ------------------------------------------------------------ Init
ValidConfigNoDepth ==
    /\ ErrorWriter = TRUE
    /\ BufferSize >= 0

\* NewLogger: ErrorWriter os.Stderr, MaxLevel LevelDebug, not open, entries nil.
\* The application then sets the public fields and attaches targets.
ValidConfig ==
    /\ ErrorWriter = TRUE
    /\ BufferSize >= 0
    /\ CallStackDepth >= 0

\* The configurations Open accepts, and one for each reason it refuses.
ValidConfigs == [ew : {TRUE}, bs : {0, MaxBuf}, csd : {0}]

InvalidConfigs == {[ew |-> FALSE, bs |-> 0, csd |-> 0],
                   [ew |-> TRUE, bs |-> -1, csd |-> 0],
                   [ew |-> TRUE, bs |-> 0, csd |-> -1]}

InitBudget(configs, kinds, b) ==
    /\ \E c \in configs :
          /\ ErrorWriter = c.ew
          /\ BufferSize = c.bs
          /\ CallStackDepth = c.csd
    /\ Registered = Prefix(NumTargets)
    /\ kind \in kinds
    /\ budget = b
    /\ Targets = Registered
    /\ MaxLevel = LevelDebug
    /\ open = FALSE
    /\ lock = 0
    /\ entries = 0
    /\ chans = [c \in ChanIds |-> EmptyChan]
    /\ sent = [c \in ChanIds |-> <<>>]
    /\ tch = [g \in TargetIds |-> EmptyTch]
    /\ th = [t \in Threads |-> IdleThread]
    /\ loops = [k \in ChanIds |-> NoLoop]
    /\ procLog = [g \in TargetIds |-> <<>>]
    /\ openCalls = [g \in TargetIds |-> 0]
    /\ closeCalls = [g \in TargetIds |-> 0]
    /\ closeRets = [g \in TargetIds |-> 0]
    /\ errOut = 0
    /\ nextId = 1
    /\ written = [g \in TargetIds |-> <<>>]
    /\ blockAt = [g \in TargetIds |-> 0]
    /\ flushLog = <<>>
    /\ label = [g \in TargetIds |-> NoLabel]
    /\ views = <<RootLogger>>

\* A run of at most MaxWork units of work and n re-opens.
\* A constructor that starts the target's filter at LevelInfo.
NewTargetMaxLevelInfo == LevelInfo

\* NewConsoleTarget: `Filter: &Filter{MaxLevel: LevelDbg}`.
NewTargetMaxLevel == LevelDebug

InitCore(configs, kinds, n) ==
    InitBudget(configs, kinds, [work |-> MaxWork, reopens |-> n])

\* NewConsoleTarget: Filter MaxLevel LevelDbg, the DetailsInfo zero.
InitWith(configs, kinds, n) ==
    /\ InitCore(configs, kinds, n)
    /\ filt = [g \in TargetIds |-> NewTargetMaxLevel]
    /\ faulty = {}
    /\ di = [g \in TargetIds |-> ZeroDetails]

\* One open/close cycle, every configuration and every mix of target kinds.
Init == InitWith(ValidConfigs \cup InvalidConfigs,
                 [TargetIds -> {"console", "plain"}], 0)

\* Runs that may open the logger again: buffered queue, console targets.
InitReopen == InitWith({[ew |-> TRUE, bs |-> MaxBuf, csd |-> 0]},
                       [TargetIds -> {"console"}], MaxReopens)

\* ------------------------------------------------------------ channels
CapOneMore == BufferSize + 1

\* make(chan *Entry, l.BufferSize): every channel Open makes has this capacity.
Cap == BufferSize

\* What a thread does once its send on l.entries has completed: Log returns,
\* Close goes on to range over l.Targets.
AfterSend(r) ==
    IF r.pc \in {"log_send", "log_parked"}
    THEN IdleThread
    ELSE [r EXCEPT !.pc = "close_range"]

\* The value a receive takes from a channel that has a buffered head.
RecvPick(buf) == Head(buf)

\* The buffer left after that receive.
RecvRest(buf) == Tail(buf)

LoopFinishNoBreak(lr) == [NoLoop EXCEPT !.pc = "top"]

\* The process() loop after the range over its targets is over: break on the
\* nil entry, else back to the receive.
LoopFinish(lr) ==
    IF lr.entry = NilEntry
    THEN [NoLoop EXCEPT !.pc = "done"]
    ELSE [NoLoop EXCEPT !.pc = "top"]

LoopAdvanceFirstOnly(lr) == LoopFinish(lr)

\* A dispatcher that gives up on the entry after a target whose writes fail.
LoopAdvanceStopsAtFaulty(lr) ==
    IF lr.idx < Len(lr.tl) /\ lr.tl[lr.idx] \notin faulty
    THEN [lr EXCEPT !.pc = "proc", !.idx = @ + 1]
    ELSE LoopFinish(lr)

\* The process() loop after one target.Process(entry) returned.
LoopAdvance(lr) ==
    IF lr.idx < Len(lr.tl)
    THEN [lr EXCEPT !.pc = "proc", !.idx = @ + 1]
    ELSE LoopFinish(lr)

\* coreLogger.Close after one target.Close() returned.
CloseAdvance(r) ==
    IF r.idx < Len(r.tl)
    THEN [r EXCEPT !.pc = "close_targets", !.idx = @ + 1]
    ELSE [r EXCEPT !.pc = "close_done"]

\* `l.entries <- v` by thread t, v = th[t].ent, on channel c.
SendOn(t, c) ==
    LET v == th[t].ent
        q == chans[c]
        r == th[t]
    IN  IF q.recvq # <<>>
        THEN /\ chans' = [chans EXCEPT ![c].recvq = Tail(q.recvq)]
             /\ loops' = [loops EXCEPT ![Head(q.recvq)].pc = "range",
                                       ![Head(q.recvq)].entry = v]
             /\ sent' = [sent EXCEPT ![c] = Append(@, v)]
             /\ th' = [th EXCEPT ![t] = AfterSend(r)]
        ELSE IF Len(q.buf) < Cap
        THEN /\ chans' = [chans EXCEPT ![c].buf = Append(q.buf, v)]
             /\ sent' = [sent EXCEPT ![c] = Append(@, v)]
             /\ th' = [th EXCEPT ![t] = AfterSend(r)]
             /\ UNCHANGED loops
        ELSE /\ chans' = [chans EXCEPT ![c].sendq = Append(q.sendq, t)]
             /\ th' = [th EXCEPT ![t] =
                          [r EXCEPT !.pc = IF r.pc = "log_send"
                                           THEN "log_parked" ELSE "close_parked"]]
             /\ UNCHANGED <<loops, sent>>

\* ------------------------------------------------------------ Logger.Log
LogRejectsLevelOnly(level) == level > MaxLevel

LogRejectsFromMaxLevel(level) == level >= MaxLevel \/ ~open

\* `if level > l.MaxLevel || !l.open { return }`
LogRejects(level) == level > MaxLevel \/ ~open

\* Log up to the send: the check, then the Entry is built and formatted.
Log(t, level) ==
    /\ th[t].pc = "idle"
    /\ IF LogRejects(level)
       THEN /\ th' = [th EXCEPT ![t] =
                         [IdleThread EXCEPT !.pc = "log_dropped", !.arg = level]]
            /\ UNCHANGED <<nextId, budget>>
       ELSE /\ budget.work > 0
            /\ budget' = Spend(budget)
            /\ th' = [th EXCEPT ![t] =
                         [IdleThread EXCEPT !.pc = "log_send", !.arg = level,
                                            !.ent = Entry(nextId, level, t)]]
            /\ nextId' = nextId + 1
    /\ UNCHANGED <<config, MaxLevel, Targets, open, lock, entries, chans, sent,
                   tch, loops, targetObs, errOut>>
    /\ UNCHANGED <<details, flushLog, views, written>>

\* `l.entries <- entry`
LogSend(t) ==
    /\ th[t].pc = "log_send"
    /\ SendOn(t, entries)
    /\ UNCHANGED <<config, MaxLevel, Targets, open, lock, entries, tch,
                   targetObs, errOut, nextId, budget>>
    /\ UNCHANGED <<details, flushLog, views, written>>

\* SetMaxLevel writes the MaxLevel of the one coreLogger behind every Logger.
SetMaxLevel(t, lvl) ==
    /\ th[t].pc = "idle"
    /\ MaxLevel # lvl
    /\ MaxLevel' = lvl
    /\ budget.work > 0
    /\ budget' = Spend(budget)
    /\ UNCHANGED <<config, Targets, open, lock, entries, chans, sent, tch, th,
                   loops, targetObs, errOut, nextId>>
    /\ UNCHANGED <<details, flushLog, views, written>>

\* ------------------------------------------------------------ coreLogger.Open
\* target.Open for every target of l.Targets; ok is the set of targets whose
\* Open returned nil.  The others are reported and left out of the new list.
OpenedTargets(ok) ==
    LET Keeps(g) == g \in ok IN SelectSeq(Targets, Keeps)

\* Open up to `l.entries = make(...)`: the lock, the open check, the validation.
OpenCall(t) ==
    /\ th[t].pc = "idle"
    /\ lock = 0
    /\ IF open
       THEN /\ th' = [th EXCEPT ![t] = [IdleThread EXCEPT !.pc = "open_noop"]]
            /\ UNCHANGED <<lock, entries, budget>>
       ELSE IF ~ValidConfig
       THEN /\ th' = [th EXCEPT ![t] = [IdleThread EXCEPT !.pc = "open_err"]]
            /\ UNCHANGED <<lock, entries, budget>>
       ELSE /\ entries >= 1 => (budget.reopens > 0 /\ budget.work > 0)
            /\ budget' = IF entries >= 1
                          THEN [Spend(budget) EXCEPT !.reopens = @ - 1]
                          ELSE budget
            /\ lock' = t
            /\ entries' = entries + 1
            /\ th' = [th EXCEPT ![t] =
                         [IdleThread EXCEPT !.pc = "open_body"]]
    /\ UNCHANGED <<config, MaxLevel, Targets, open, chans, sent, tch, loops,
                   targetObs, errOut, nextId>>
    /\ UNCHANGED <<details, flushLog, views, written>>

\* The rest of Open: the targets are opened, `go l.process()`, `l.open = true`,
\* and the deferred Unlock.
OpenFinish(t) ==
    /\ th[t].pc = "open_body"
    /\ \E ok \in SUBSET Range(Targets) :
          /\ Targets' = OpenedTargets(ok)
          /\ errOut' = errOut + Cardinality(Range(Targets) \ ok)
    /\ openCalls' = [g \in TargetIds |->
                        IF g \in Range(Targets) THEN openCalls[g] + 1 ELSE openCalls[g]]
    /\ loops' = [loops EXCEPT ![entries] = [NoLoop EXCEPT !.pc = "top"]]
    /\ open' = TRUE
    /\ lock' = 0
    /\ th' = [th EXCEPT ![t] = IdleThread]
    /\ UNCHANGED <<config, MaxLevel, entries, chans, sent, tch, procLog,
                   closeCalls, closeRets, nextId, budget>>
    /\ UNCHANGED <<details, flushLog, views, written>>

\* ------------------------------------------------------------ Target.Process
\* Filter.Allow: the entry's level is at most the filter's MaxLevel.
Allow(g, e) == e.level <= filt[g]

ProcessWritesUnfiltered(g, e) == e # NilEntry

\* ConsoleTarget.Process, FileTarget.Process: the nil entry is the shutdown
\* signal, an entry the filter does not allow is skipped, any other is written.
ProcessWrites(g, e) == e # NilEntry /\ Allow(g, e)

\* The outcomes of a write to the target's destination: it fails or not.
WriteFails(g) == IF g \in faulty THEN {TRUE, FALSE} ELSE {FALSE}

\* What the target has written after Process(e).
Written(g, e, w) == IF ProcessWrites(g, e) THEN Append(w, e) ELSE w

\* ------------------------------------------------------------ process()
\* `entry := <-l.entries`
LoopRecv(l) ==
    /\ loops[l].pc = "top"
    /\ LET c == entries
           q == chans[c]
       IN  IF q.sendq # <<>>
           THEN LET s == Head(q.sendq) IN
                /\ chans' = [chans EXCEPT
                                ![c].sendq = Tail(q.sendq),
                                ![c].buf = IF Cap = 0 THEN q.buf
                                           ELSE Append(RecvRest(q.buf), th[s].ent)]
                /\ loops' = [loops EXCEPT ![l] =
                                [@ EXCEPT !.pc = "range", !.ch = c,
                                          !.entry = IF Cap = 0 THEN th[s].ent
                                                    ELSE RecvPick(q.buf)]]
                /\ sent' = [sent EXCEPT ![c] = Append(@, th[s].ent)]
                /\ th' = [th EXCEPT ![s] = AfterSend(th[s])]
           ELSE IF q.buf # <<>>
           THEN /\ chans' = [chans EXCEPT ![c].buf = RecvRest(q.buf)]
                /\ loops' = [loops EXCEPT ![l] =
                                [@ EXCEPT !.pc = "range", !.ch = c,
                                          !.entry = RecvPick(q.buf)]]
                /\ UNCHANGED <<sent, th>>
           ELSE /\ chans' = [chans EXCEPT ![c].recvq = Append(q.recvq, l)]
                /\ loops' = [loops EXCEPT ![l] = [@ EXCEPT !.pc = "parked", !.ch = c]]
                /\ UNCHANGED <<sent, th>>
    /\ UNCHANGED <<config, MaxLevel, Targets, open, lock, entries, tch,
                   targetObs, errOut, nextId, budget>>
    /\ UNCHANGED <<details, flushLog, views, written>>

\* `for _, target := range l.Targets { target.Process(entry) }`: the range
\* expression is read once, when the loop reaches it ("range"); a console or
\* file target answers the nil entry with `t.close <- true`, every other entry
\* is filtered and written.
LoopProcess(l) ==
    /\ loops[l].pc \in {"range", "proc"}
    /\ LET lr == IF loops[l].pc = "range"
                 THEN [loops[l] EXCEPT !.tl = Targets, !.idx = 1]
                 ELSE loops[l]
       IN  IF lr.tl = <<>>
           THEN /\ loops' = [loops EXCEPT ![l] = LoopFinish(lr)]
                /\ UNCHANGED <<procLog, written, tch, th, closeRets>>
           ELSE LET g == lr.tl[lr.idx] IN
                /\ procLog' = [procLog EXCEPT ![g] = Append(@, lr.entry)]
                /\ \E fails \in WriteFails(g) :
                      written' = [written EXCEPT
                                     ![g] = IF fails THEN @ ELSE Written(g, lr.entry, @)]
                /\ IF lr.entry = NilEntry /\ kind[g] = "console"
                   THEN IF tch[g].recvq # <<>>
                        THEN LET s == Head(tch[g].recvq) IN
                             /\ tch' = [tch EXCEPT ![g].recvq = Tail(@)]
                             /\ th' = [th EXCEPT ![s] = CloseAdvance(th[s])]
                             /\ closeRets' = [closeRets EXCEPT ![g] = @ + 1]
                             /\ loops' = [loops EXCEPT ![l] = LoopAdvance(lr)]
                        ELSE /\ tch' = [tch EXCEPT ![g].sendq = Append(@, l)]
                             /\ loops' = [loops EXCEPT
                                             ![l] = [lr EXCEPT !.pc = "tparked"]]
                             /\ UNCHANGED <<th, closeRets>>
                   ELSE /\ loops' = [loops EXCEPT ![l] = LoopAdvance(lr)]
                        /\ UNCHANGED <<tch, th, closeRets>>
    /\ UNCHANGED <<config, MaxLevel, Targets, open, lock, entries, chans, sent,
                   openCalls, closeCalls, errOut, nextId, budget>>
    /\ UNCHANGED <<details, flushLog, views>>

\* ------------------------------------------------------------ coreLogger.Close
\* `if !l.open { return }`
CloseCall(t) ==
    /\ th[t].pc = "idle"
    /\ th' = [th EXCEPT ![t] =
                 IF ~open
                 THEN [IdleThread EXCEPT !.pc = "close_noop"]
                 ELSE [IdleThread EXCEPT !.pc = "close_set", !.ch = entries,
                                         !.pre = Len(sent[entries])]]
    /\ UNCHANGED <<config, MaxLevel, Targets, open, lock, entries, chans, sent,
                   tch, loops, targetObs, errOut, nextId, budget>>
    /\ UNCHANGED <<details, flushLog, views, written>>

\* `l.open = false`
CloseSet(t) ==
    /\ th[t].pc = "close_set"
    /\ open' = FALSE
    /\ th' = [th EXCEPT ![t].pc = "close_send"]
    /\ UNCHANGED <<config, MaxLevel, Targets, lock, entries, chans, sent, tch,
                   loops, targetObs, errOut, nextId, budget>>
    /\ UNCHANGED <<details, flushLog, views, written>>

\* `l.entries <- nil`
CloseSend(t) ==
    /\ th[t].pc = "close_send"
    /\ SendOn(t, entries)
    /\ UNCHANGED <<config, MaxLevel, Targets, open, lock, entries, tch,
                   targetObs, errOut, nextId, budget>>
    /\ UNCHANGED <<details, flushLog, views, written>>

\* `for _, target := range l.Targets { target.Close() }`: the range expression
\* is read once, when Close reaches it ("close_range"); a console or file
\* target waits on `<-t.close`.
CloseTarget(t) ==
    /\ th[t].pc \in {"close_range", "close_targets"}
    /\ LET r == IF th[t].pc = "close_range"
                THEN [th[t] EXCEPT !.tl = Targets, !.idx = 1]
                ELSE th[t]
       IN  IF r.tl = <<>>
           THEN /\ th' = [th EXCEPT ![t] = [r EXCEPT !.pc = "close_done"]]
                /\ UNCHANGED <<closeCalls, closeRets, tch, loops>>
           ELSE LET g == r.tl[r.idx] IN
                /\ closeCalls' = [closeCalls EXCEPT ![g] = @ + 1]
                /\ IF kind[g] = "console"
                   THEN IF tch[g].sendq # <<>>
                        THEN LET l == Head(tch[g].sendq) IN
                             /\ tch' = [tch EXCEPT ![g].sendq = Tail(@)]
                             /\ loops' = [loops EXCEPT ![l] = LoopAdvance(loops[l])]
                             /\ closeRets' = [closeRets EXCEPT ![g] = @ + 1]
                             /\ th' = [th EXCEPT ![t] = CloseAdvance(r)]
                        ELSE /\ tch' = [tch EXCEPT ![g].recvq = Append(@, t)]
                             /\ th' = [th EXCEPT ![t] = [r EXCEPT !.pc = "close_tparked"]]
                             /\ UNCHANGED <<loops, closeRets>>
                   ELSE /\ closeRets' = [closeRets EXCEPT ![g] = @ + 1]
                        /\ th' = [th EXCEPT ![t] = CloseAdvance(r)]
                        /\ UNCHANGED <<tch, loops>>
    /\ UNCHANGED <<config, MaxLevel, Targets, open, lock, entries, chans, sent,
                   procLog, openCalls, errOut, nextId, budget>>
    /\ UNCHANGED <<details, flushLog, views, written>>

\* The return statement of a call whose outcome the caller can see.
Return(t) ==
    /\ th[t].pc \in ReturnPcs
    /\ th' = [th EXCEPT ![t] = IdleThread]
    /\ UNCHANGED <<config, MaxLevel, Targets, open, lock, entries, chans, sent,
                   tch, loops, targetObs, errOut, nextId, budget>>
    /\ UNCHANGED <<details, flushLog, views, written>>

\* ------------------------------------------------------------ specification
Next ==
    \/ \E t \in Threads, level \in LogLevels : Log(t, level)
    \/ \E t \in Threads : LogSend(t)
    \/ \E t \in Threads, lvl \in MaxLevels : SetMaxLevel(t, lvl)
    \/ \E t \in Threads : OpenCall(t)
    \/ \E t \in Threads : OpenFinish(t)
    \/ \E t \in Threads : CloseCall(t)
    \/ \E t \in Threads : CloseSet(t)
    \/ \E t \in Threads : CloseSend(t)
    \/ \E t \in Threads : CloseTarget(t)
    \/ \E t \in Threads : Return(t)
    \/ \E l \in ChanIds : LoopRecv(l)
    \/ \E l \in ChanIds : LoopProcess(l)

Spec == Init /\ [][Next]_vars

SpecReopen == InitReopen /\ [][Next]_vars

\* ------------------------------------------------------------ coreLogger.Flush
FlushedTargetsAlways == Targets

\* `if !l.open { return }`, else the targets of l.Targets in order.
FlushedTargets == IF open THEN Targets ELSE <<>>

\* Flush: target.Flush() for every target of l.Targets.
Flush(t) ==
    /\ th[t].pc = "idle"
    /\ budget.work > 0
    /\ budget' = Spend(budget)
    /\ flushLog' = flushLog \o FlushedTargets
    /\ th' = [th EXCEPT ![t] = [IdleThread EXCEPT !.pc = "flush_done"]]
    /\ UNCHANGED <<config, MaxLevel, Targets, open, lock, entries, chans, sent,
                   tch, loops, targetObs, errOut, nextId>>
    /\ UNCHANGED <<details, views, written>>

\* ------------------------------------------------- SetCategory, SetSubcategory
\* `dt, OK := target.(DetailsTarget)`: ConsoleTarget has the five methods.
IsDetailsTarget(g) == kind[g] = "console"

DetailsTargetsUnchecked == IF open THEN Range(Targets) ELSE {}

\* `if !l.open { return }`, else the targets of l.Targets that are DetailsTargets.
DetailsTargets == IF open THEN {g \in Range(Targets) : IsDetailsTarget(g)} ELSE {}

\* coreLogger.SetCategory: ConsoleTarget.SetCategory sets t.Category.
SetCategory(t, s) ==
    /\ th[t].pc = "idle"
    /\ budget.work > 0
    /\ budget' = Spend(budget)
    /\ label' = [g \in TargetIds |->
                    IF g \in DetailsTargets
                    THEN [label[g] EXCEPT !.Category = s] ELSE label[g]]
    /\ th' = [th EXCEPT ![t] = [IdleThread EXCEPT !.pc = "setcat_done", !.arg = s]]
    /\ UNCHANGED <<config, MaxLevel, Targets, open, lock, entries, chans, sent,
                   tch, loops, targetObs, errOut, nextId>>
    /\ UNCHANGED <<di, blockAt, flushLog, views, written>>

\* coreLogger.SetSubcategory: ConsoleTarget.SetSubcategory sets t.Subcategory.
SetSubcategory(t, s) ==
    /\ th[t].pc = "idle"
    /\ budget.work > 0
    /\ budget' = Spend(budget)
    /\ label' = [g \in TargetIds |->
                    IF g \in DetailsTargets
                    THEN [label[g] EXCEPT !.Subcategory = s] ELSE label[g]]
    /\ th' = [th EXCEPT ![t] = [IdleThread EXCEPT !.pc = "setsub_done", !.arg = s]]
    /\ UNCHANGED <<config, MaxLevel, Targets, open, lock, entries, chans, sent,
                   tch, loops, targetObs, errOut, nextId>>
    /\ UNCHANGED <<di, blockAt, flushLog, views, written>>

\* ------------------------------------------------------------ details blocks
\* The local `di` of StartLogDetailsBlock after its four assignments.
StartedCopy(d, cat) ==
    [d EXCEPT !.DoingDetails = TRUE, !.MinLogLevel = LevelOkay,
              !.Category = cat, !.Subcategory = ""]

\* `di := t.DetailsInfo` copies the struct: the assignments go to the copy
\* StartedCopy(d, cat), which is dropped at return; the target keeps d.
AfterStart(d, cat) == d

\* ConsoleTarget.StartLogDetailsBlock(sCatg, E), called by thread t on target g
\* with a new Entry of the given level: `t.Process(E)` on the caller's thread,
\* then the assignments to the copy.
StartLogDetailsBlock(t, g, cat, level) ==
    /\ th[t].pc = "idle"
    /\ IsDetailsTarget(g)
    /\ budget.work > 0
    /\ budget' = Spend(budget)
    /\ LET E == Entry(nextId, level, t) IN
          /\ procLog' = [procLog EXCEPT ![g] = Append(@, E)]
          /\ written' = [written EXCEPT ![g] = Written(g, E, @)]
          /\ blockAt' = [blockAt EXCEPT ![g] = Len(procLog[g]) + 1]
    /\ nextId' = nextId + 1
    /\ di' = [di EXCEPT ![g] = AfterStart(@, cat)]
    /\ th' = [th EXCEPT ![t] =
                 [IdleThread EXCEPT !.pc = "start_done", !.arg = cat, !.idx = g]]
    /\ UNCHANGED <<config, MaxLevel, Targets, open, lock, entries, chans, sent,
                   tch, loops, openCalls, closeCalls, closeRets, errOut>>
    /\ UNCHANGED <<label, flushLog, views>>

\* ConsoleTarget.CloseLogDetailsBlock(s): the body is empty.
AfterCloseBlock(d) == d

CloseLogDetailsBlock(t, g, s) ==
    /\ th[t].pc = "idle"
    /\ IsDetailsTarget(g)
    /\ budget.work > 0
    /\ budget' = Spend(budget)
    /\ di' = [di EXCEPT ![g] = AfterCloseBlock(@)]
    /\ th' = [th EXCEPT ![t] =
                 [IdleThread EXCEPT !.pc = "closeblock_done", !.arg = s, !.idx = g]]
    /\ UNCHANGED <<config, MaxLevel, Targets, open, lock, entries, chans, sent,
                   tch, loops, targetObs, errOut, nextId>>
    /\ UNCHANGED <<label, blockAt, flushLog, views, written>>

AfterQuoteEndsBlock(d) == [d EXCEPT !.DoingDetails = FALSE]

\* ConsoleTarget.LogTextQuote(E, s): the body is empty.
AfterQuote(d) == d

LogTextQuote(t, g, s) ==
    /\ th[t].pc = "idle"
    /\ IsDetailsTarget(g)
    /\ budget.work > 0
    /\ budget' = Spend(budget)
    /\ di' = [di EXCEPT ![g] = AfterQuote(@)]
    /\ th' = [th EXCEPT ![t] =
                 [IdleThread EXCEPT !.pc = "quote_done", !.arg = s, !.idx = g]]
    /\ UNCHANGED <<config, MaxLevel, Targets, open, lock, entries, chans, sent,
                   tch, loops, targetObs, errOut, nextId>>
    /\ UNCHANGED <<label, blockAt, flushLog, views, written>>

\* ------------------------------------------------------------ Logger.GetLogger
NewViewDefaultFormatter(l, category, formatter) ==
    [core |-> l.core, Category |-> category,
     Formatter |-> IF formatter = NoFormatter THEN "DefaultFormatter" ELSE formatter]

\* `&Logger{l.coreLogger, category, formatter[0]}`, or l.Formatter when no
\* formatter is given.
NewView(l, category, formatter) ==
    [core |-> l.core, Category |-> category,
     Formatter |-> IF formatter = NoFormatter THEN l.Formatter ELSE formatter]

\* GetLogger called by thread t on the Logger views[v].
GetLogger(t, v, category, formatter) ==
    /\ th[t].pc = "idle"
    /\ Len(views) < MaxViews
    /\ budget.work > 0
    /\ budget' = Spend(budget)
    /\ views' = Append(views, NewView(views[v], category, formatter))
    /\ th' = [th EXCEPT ![t] =
                 [IdleThread EXCEPT !.pc = "getlogger_done", !.arg = category,
                                    !.ch = formatter, !.idx = v]]
    /\ UNCHANGED <<config, MaxLevel, Targets, open, lock, entries, chans, sent,
                   tch, loops, targetObs, errOut, nextId>>
    /\ UNCHANGED <<details, flushLog, written>>

\* ------------------------------------------------------ Log through a Logger
EntryViaRoot(l, v, i, lvl, t) ==
    [id |-> i, level |-> lvl, by |-> t, via |-> v,
     Category |-> RootLogger.Category, FormattedBy |-> RootLogger.Formatter]

\* `&Entry{Category: l.Category, Level: level, ...}` and
\* `entry.FormattedMessage = l.Formatter(l, entry)`, for the Logger l = views[v];
\* via names the Logger the entry was logged through (history).
EntryVia(l, v, i, lvl, t) ==
    [id |-> i, level |-> lvl, by |-> t, via |-> v,
     Category |-> l.Category, FormattedBy |-> l.Formatter]

\* Logger.Log called by thread t on the Logger views[v], up to the send.
LogVia(t, v, level) ==
    /\ th[t].pc = "idle"
    /\ IF LogRejects(level)
       THEN /\ th' = [th EXCEPT ![t] =
                         [IdleThread EXCEPT !.pc = "log_dropped", !.arg = level]]
            /\ UNCHANGED <<nextId, budget>>
       ELSE /\ budget.work > 0
            /\ budget' = Spend(budget)
            /\ th' = [th EXCEPT ![t] =
                         [IdleThread EXCEPT
                             !.pc = "log_send", !.arg = level,
                             !.ent = EntryVia(views[v], v, nextId, level, t)]]
            /\ nextId' = nextId + 1
    /\ UNCHANGED <<config, MaxLevel, Targets, open, lock, entries, chans, sent,
                   tch, loops, targetObs, errOut>>
    /\ UNCHANGED <<details, flushLog, views, written>>

\* The package's Example: two console targets with their default filter, and
\* Info, Dbg and Error logged through the root Logger or a Logger made from it.
ExampleLevels == {LevelInfo, LevelDebug, LevelError}

InitExample ==
    /\ InitBudget({[ew |-> TRUE, bs |-> MaxBuf, csd |-> 0]},
                  [TargetIds -> {"console"}], [work |-> MaxExample, reopens |-> 0])
    /\ filt = [g \in TargetIds |-> NewTargetMaxLevel]
    /\ faulty = {}
    /\ di = [g \in TargetIds |-> ZeroDetails]

NextExample ==
    \/ \E t \in Threads, v \in 1..Len(views), level \in ExampleLevels :
          LogVia(t, v, level)
    \/ \E t \in Threads : LogSend(t)
    \/ \E t \in Threads, v \in 1..Len(views), f \in Formatters :
          GetLogger(t, v, "[01]", f)
    \/ \E t \in Threads : OpenCall(t)
    \/ \E t \in Threads : OpenFinish(t)
    \/ \E t \in Threads : Return(t)
    \/ \E l \in ChanIds : LoopRecv(l)
    \/ \E l \in ChanIds : LoopProcess(l)

SpecExample == InitExample /\ [][NextExample]_vars

\* ------------------------------------------------------------ details runs
\* A block the application left open on the target before the run.
OpenBlock == [DoingDetails |-> TRUE, MinLogLevel |-> LevelOkay,
              Category |-> "[00]", Subcategory |-> "[st1]"]

\* One console target, which is a DetailsTarget, Idle or InBlock, and plain
\* targets, which are not; a buffered queue.
InitDetails ==
    /\ InitCore({[ew |-> TRUE, bs |-> MaxBuf, csd |-> 0]},
                {[g \in TargetIds |-> IF g = 1 THEN "console" ELSE "plain"]}, 0)
    /\ filt = [g \in TargetIds |-> NewTargetMaxLevel]
    /\ faulty = {}
    /\ di \in [TargetIds -> {ZeroDetails, OpenBlock}]
    /\ \A g \in TargetIds : ~IsDetailsTarget(g) => di[g] = ZeroDetails

NextDetails ==
    \/ Next
    \/ \E t \in Threads : Flush(t)
    \/ \E t \in Threads, s \in Labels : SetCategory(t, s)
    \/ \E t \in Threads, s \in Labels : SetSubcategory(t, s)
    \/ \E t \in Threads, g \in TargetIds, cat \in Labels, level \in LogLevels :
          StartLogDetailsBlock(t, g, cat, level)
    \/ \E t \in Threads, g \in TargetIds, s \in Labels : CloseLogDetailsBlock(t, g, s)
    \/ \E t \in Threads, g \in TargetIds, s \in Labels : LogTextQuote(t, g, s)
    \/ \E t \in Threads, v \in 1..Len(views), c \in Labels, f \in Formatters :
          GetLogger(t, v, c, f)

SpecDetails == InitDetails /\ [][NextDetails]_vars

\* The delivery path with every level and every filter: the first target's
\* filter is any level, the second has NewFileTarget's LevelInfo.
InitFilter ==
    /\ InitCore({[ew |-> TRUE, bs |-> MaxBuf, csd |-> 0]},
                [TargetIds -> {"console"}], 0)
    /\ filt \in [TargetIds -> AllLevels]
    /\ faulty = {}
    /\ \A g \in TargetIds : g > 1 => filt[g] = LevelInfo
    /\ di = [g \in TargetIds |-> ZeroDetails]

NextFilter ==
    \/ \E t \in Threads, level \in AllLevels : Log(t, level)
    \/ \E t \in Threads : LogSend(t)
    \/ \E t \in Threads : OpenCall(t)
    \/ \E t \in Threads : OpenFinish(t)
    \/ \E t \in Threads : Return(t)
    \/ \E l \in ChanIds : LoopRecv(l)
    \/ \E l \in ChanIds : LoopProcess(l)

SpecFilter == InitFilter /\ [][NextFilter]_vars

\* ------------------------------------------------------------ failing writes
\* Runs in which the destination of the first target may refuse any write.
InitFaulty ==
    /\ InitCore({[ew |-> TRUE, bs |-> MaxBuf, csd |-> 0]},
                [TargetIds -> {"console"}], 0)
    /\ filt = [g \in TargetIds |-> NewTargetMaxLevel]
    /\ faulty = {1}
    /\ di = [g \in TargetIds |-> ZeroDetails]

SpecFaulty == InitFaulty /\ [][Next]_vars

\* ------------------------------------------------------------ one Close call
\* Runs in which both threads log and only the second one calls Close, on
\* console targets, with an unbuffered and with a buffered queue.
InitClose ==
    InitWith({[ew |-> TRUE, bs |-> b, csd |-> 0] : b \in {0, MaxBuf}},
             [TargetIds -> {"console"}], 0)

NextClose ==
    \/ \E t \in Threads, level \in LogLevels : Log(t, level)
    \/ \E t \in Threads : LogSend(t)
    \/ \E t \in Threads : OpenCall(t)
    \/ \E t \in Threads : OpenFinish(t)
    \/ CloseCall(NumThreads)
    \/ \E t \in Threads : CloseSet(t)
    \/ \E t \in Threads : CloseSend(t)
    \/ \E t \in Threads : CloseTarget(t)
    \/ \E t \in Threads : Return(t)
    \/ \E l \in ChanIds : LoopRecv(l)
    \/ \E l \in ChanIds : LoopProcess(l)

\* The Go scheduler runs every goroutine that can take a step: the delivery
\* loop, and a caller that is inside Log, Open or Close.
FairClose ==
    /\ WF_vars(\E l \in ChanIds : LoopRecv(l))
    /\ WF_vars(\E l \in ChanIds : LoopProcess(l))
    /\ \A t \in Threads :
          /\ WF_vars(LogSend(t))
          /\ WF_vars(OpenFinish(t))
          /\ WF_vars(CloseSet(t))
          /\ WF_vars(CloseSend(t))
          /\ WF_vars(CloseTarget(t))
          /\ WF_vars(Return(t))

SpecClose == InitClose /\ [][NextClose]_vars /\ FairClose

\* ------------------------------------------------------------ properties
IsReal(e) == e # NilEntry

Reals(s) == SelectSeq(s, IsReal)

IsPrefix(a, b) == Len(a) <= Len(b) /\ SubSeq(b, 1, Len(a)) = a

\* The entries that Log calls have created so far.
Created == 1..(nextId - 1)

\* Number of positions of s that hold the entry with id i.
Occurrences(s, i) == Cardinality({k \in 1..Len(s) : s[k].id = i})

\* The thread is inside Log, past the check, its entry not yet in the queue.
Sending(t) == th[t].pc \in {"log_send", "log_parked"}

\* C1: on a Logger opened once, every entry a Log call was admitted with enters
\* the queue exactly once, the entries of one thread enter it in the order the
\* thread issued them, every target's Process calls carry the queued entries in
\* queue order (so any two targets see the same order), and once the delivery
\* loop waits on the empty queue every active target has received all of them.
C1_FifoDelivery ==
    /\ \A i \in Created :
          IF \E t \in Threads : Sending(t) /\ th[t].ent.id = i
          THEN Occurrences(sent[1], i) = 0
          ELSE Occurrences(sent[1], i) = 1
    /\ \A j, k \in 1..Len(sent[1]) :
          (j < k /\ IsReal(sent[1][j]) /\ sent[1][j].by = sent[1][k].by)
             => sent[1][j].id < sent[1][k].id
    /\ \A g \in TargetIds : IsPrefix(Reals(procLog[g]), Reals(sent[1]))
    /\ loops[1].pc = "parked"
          => \A g \in Range(Targets) : Reals(procLog[g]) = Reals(sent[1])

\* Both targets have received the two entries one thread logged, in issue order.
C1_Witness ==
    /\ Len(Targets) = 2
    /\ \E t \in Threads :
          \A g \in Range(Targets) :
             /\ Len(procLog[g]) = 2
             /\ procLog[g][1].id = 1 /\ procLog[g][1].by = t
             /\ procLog[g][2].id = 2 /\ procLog[g][2].by = t

\* The values that entered channel c before the first nil did, and that nil.
UpToNil(c) ==
    LET nils == {k \in 1..Len(sent[c]) : sent[c][k] = NilEntry}
    IN  IF nils = {} THEN sent[c]
        ELSE SubSeq(sent[c], 1, CHOOSE k \in nils : \A j \in nils : k <= j)

NilCount(c) == Cardinality({k \in 1..Len(sent[c]) : sent[c][k] = NilEntry})

\* The process() goroutines that have been started and have not returned.
LiveLoops == {l \in ChanIds : loops[l].pc \notin {"none", "done"}}

\* C2: when Close returns, every entry that was in the queue's history when
\* Close was called has been passed to Process of every active target.
C2_CloseWaitsForDelivery ==
    \A t \in Threads :
       th[t].pc = "close_done"
          => \A g \in Range(Targets), k \in 1..th[t].pre :
                IsReal(sent[th[t].ch][k])
                   => \E j \in 1..Len(procLog[g]) : procLog[g][j] = sent[th[t].ch][k]

C4_NoProcessAfterClose ==
    [][(\E t \in Threads : th[t].pc = "close_done")
          => \A g \in TargetIds : Reals(procLog'[g]) = Reals(procLog[g])]_vars

\* C5: a Log call on a logger that is not open goes straight to its return
\* statement: no Entry is created, the queue and every target are untouched.
C5_LogWhileClosedIsNoOp ==
    [][\A t \in Threads :
          (th[t].pc = "idle" /\ ~open
             /\ th'[t].pc \in {"log_dropped", "log_send", "log_parked"})
          => /\ th'[t].pc = "log_dropped"
             /\ th'[t].ent = NilEntry
             /\ UNCHANGED <<nextId, chans, sent, loops, tch, targetObs, open,
                            entries, Targets>>]_vars

\* A Log call at an admitted level was dropped after Close returned.
C5_Witness ==
    /\ MaxLevel = LevelDebug
    /\ ~open
    /\ \E t, u \in Threads : th[t].pc = "log_dropped" /\ th[u].pc = "close_done"

\* s keeps the order of t: it lists some of the targets 1, 2, ... in increasing
\* order, which is the order they were registered in.
InRegistrationOrder(s) == \A j, k \in 1..Len(s) : j < k => s[j] < s[k]

\* C6: the Open step that finds targets failing leaves them out of the target
\* list, writes one error for each, keeps the others in registration order and
\* opens the logger; and a target that is not in the list is never put back,
\* never opened again, and gets no Process and no Close call.
C6_FailedTargetDropped ==
    [][/\ \A t \in Threads :
             (th[t].pc = "open_body" /\ th'[t].pc = "idle")
                => /\ open'
                   /\ loops'[entries].pc = "top"
                   /\ Range(Targets') \subseteq Range(Targets)
                   /\ InRegistrationOrder(Targets')
                   /\ errOut' - errOut = Len(Targets) - Len(Targets')
       /\ \A g \in TargetIds :
             g \notin Range(Targets)
                => /\ g \notin Range(Targets')
                   /\ procLog'[g] = procLog[g]
                   /\ closeCalls'[g] = closeCalls[g]
                   /\ openCalls'[g] = openCalls[g]]_vars

\* C7: with the error writer unset, a negative buffer size or a negative call
\* stack depth, every Open call returns an error and the logger stays as it was
\* built: closed, no channel, no loop, the registered targets unopened and
\* uncalled, and every Log call dropped.
C7_InvalidConfigRefused ==
    (ErrorWriter = FALSE \/ BufferSize < 0 \/ CallStackDepth < 0)
       => /\ ~open
          /\ entries = 0
          /\ lock = 0
          /\ Targets = Registered
          /\ \A l \in ChanIds : loops[l].pc = "none"
          /\ \A g \in TargetIds :
                openCalls[g] = 0 /\ closeCalls[g] = 0 /\ procLog[g] = <<>>
          /\ errOut = 0
          /\ nextId = 1
          /\ \A t \in Threads :
                th[t].pc \in {"idle", "open_err", "log_dropped", "close_noop"}

\* Open has returned its error for a negative call stack depth, and a Log call
\* made on the same logger has been dropped.
C7_Witness ==
    /\ CallStackDepth < 0
    /\ \E t, u \in Threads : th[t].pc = "open_err" /\ th[u].pc = "log_dropped"

\* C8: at most one process() goroutine exists at any time, and an Open call on
\* an open logger returns nil without touching the targets, the queue, the
\* loops or the open flag.
C8_SingleLoopIdempotentOpen ==
    [][/\ Cardinality(LiveLoops') <= 1
       /\ \A t \in Threads :
             (th[t].pc = "idle" /\ open
                /\ th'[t].pc \in {"open_noop", "open_err", "open_body"})
             => /\ th'[t].pc = "open_noop"
                /\ UNCHANGED <<Targets, entries, chans, loops, open, lock,
                               targetObs, errOut>>]_vars

\* C9: the queue never holds more than BufferSize entries; a Log call waits
\* only on a queue that is full and has no receiver waiting; and when a waiting
\* Log call goes on, its entry has entered the queue and the call returns.
QueueWithinCapacity ==
    \A c \in 1..entries :
       /\ Len(chans[c].buf) <= BufferSize
       /\ chans[c].sendq # <<>>
             => (Len(chans[c].buf) = BufferSize /\ chans[c].recvq = <<>>)

WaitingLogIsQueued ==
    \A t \in Threads :
       th[t].pc = "log_parked" => \E c \in ChanIds : t \in Range(chans[c].sendq)

C9_BoundedQueueBackpressure ==
    [][/\ QueueWithinCapacity'
       /\ WaitingLogIsQueued'
       /\ \A t \in Threads :
             (th[t].pc = "log_parked" /\ th'[t].pc # "log_parked")
                => /\ th'[t].pc = "idle"
                   /\ \E c \in ChanIds :
                         /\ sent'[c] = Append(sent[c], th[t].ent)
                         /\ \/ th[t].ent \in Range(chans'[c].buf)
                            \/ \E l \in ChanIds : /\ loops[l].pc = "top"
                                                  /\ loops'[l].pc = "range"
                                                  /\ loops'[l].entry = th[t].ent]_vars

\* A Log call waits on the full queue of an open logger.
C9_Witness ==
    /\ BufferSize = MaxBuf
    /\ \E t \in Threads :
          /\ th[t].pc = "log_parked"
          /\ Len(chans[1].buf) = BufferSize
          /\ Head(chans[1].sendq) = t

\* C10: a Log call above MaxLevel goes straight to its return statement, with
\* no Entry created and nothing queued; a Log call at or below MaxLevel on an
\* open logger creates exactly one Entry, carrying the level, the caller and the
\* next id, which it then sends; every thread's calls are judged by the same
\* MaxLevel; and no real entry enters a queue twice.
C10_MaxLevelGate ==
    [][/\ \A t \in Threads :
             (th[t].pc = "idle" /\ th'[t].pc \in {"log_dropped", "log_send"})
                => /\ th'[t].arg > MaxLevel
                      => /\ th'[t].pc = "log_dropped"
                         /\ UNCHANGED <<nextId, chans, sent, loops, targetObs>>
                   /\ (th'[t].arg <= MaxLevel /\ open)
                      => /\ th'[t].pc = "log_send"
                         /\ th'[t].ent = Entry(nextId, th'[t].arg, t)
                         /\ nextId' = nextId + 1
       /\ \A c \in ChanIds, i \in Created : Occurrences(sent'[c], i) <= 1
       /\ \A g \in TargetIds : \A e \in Range(procLog'[g]) :
             e = NilEntry \/ e.id < nextId']_vars

\* The logger is open, MaxLevel has been lowered to LevelError, and every
\* thread's last call was a Log(LevelInfo) that was dropped.
C10_Witness ==
    /\ open
    /\ MaxLevel = LevelError
    /\ \A t \in Threads : th[t].pc = "log_dropped" /\ th[t].arg = LevelInfo

\* ------------------------------------------------------------ C11
\* The entries the delivery loop has taken from the first queue so far.
Taken == SubSeq(sent[1], 1, Len(sent[1]) - Len(chans[1].buf))

\* The entries of s whose level is at most max.
UpToLevel(s, max) == LET Passes(e) == e.level <= max IN SelectSeq(s, Passes)

\* C11: a target with filter level L2 writes an entry of level L exactly when
\* L <= L2: whenever the delivery loop is between two entries, every active
\* target has written, in order, exactly the taken entries its own filter
\* allows, whatever the other target's filter rejected.
C11_FilterPerTarget ==
    /\ \A g \in TargetIds : \A e \in Range(written[g]) :
          e.level <= filt[g] /\ e \in Range(procLog[g])
    /\ loops[1].pc \in {"top", "parked"}
          => \A g \in Range(Targets) : written[g] = UpToLevel(Taken, filt[g])

\* The loop has passed on an entry that one target's filter rejected and the
\* other target has written, and one that the first target wrote at exactly
\* its filter's level.
C11_Witness ==
    /\ loops[1].pc = "parked"
    /\ \E g, h \in Range(Targets) : \E e \in Range(Taken) :
          /\ e.level > filt[g]
          /\ e \notin Range(written[g])
          /\ e \in Range(written[h])
    /\ \E g \in Range(Targets) : \E e \in Range(written[g]) : e.level = filt[g]

\* ------------------------------------------------------------ C12
\* The delivery loops that are inside a target's Process call: Process(nil) of
\* a console target waiting on the target's close channel.
InProcess == {l \in ChanIds : loops[l].pc = "tparked"}

\* C12: only a delivery loop calls Process, at most one delivery loop is inside
\* a Process call, and while it is, no thread runs a target method (Process,
\* Close or Flush).
C12_ProcessOnlyInLoop ==
    [][/\ \A g \in TargetIds :
             procLog'[g] # procLog[g]
                => \E l \in ChanIds : /\ loops[l].pc \in {"range", "proc"}
                                      /\ loops'[l] # loops[l]
       /\ Cardinality(InProcess') <= 1
       /\ InProcess # {}
             => UNCHANGED <<procLog, closeCalls, flushLog>>]_vars

\* ------------------------------------------------------------ C13
\* The threads that are in Close past its open check.
Closing == {t \in Threads : th[t].pc \in {"close_set", "close_send", "close_parked",
                                           "close_range", "close_targets",
                                           "close_tparked", "close_done"}}

\* C13: on a dispatcher that is opened once, whatever the interleaving of the
\* Close calls, one shutdown happens: one Close call gets past the open check,
\* one sentinel enters the queue, and each target's Close is called once.
C13_SingleShutdown ==
    /\ Cardinality(Closing) <= 1
    /\ \A c \in ChanIds : NilCount(c) <= 1
    /\ \A g \in TargetIds : closeCalls[g] <= 1

\* ------------------------------------------------------------ C14
\* Thread t makes and finishes the call whose return position is pc.
Calls(t, pc) == th[t].pc = "idle" /\ th'[t].pc = pc

\* C14: a Flush call on a dispatcher that is not open calls no target's Flush;
\* on an open dispatcher it calls Flush once on every active target, in
\* registration order; either way the open flag, the queue and the target list
\* stay as they were, and nothing but a Flush call calls a target's Flush.
C14_FlushFrame ==
    [][/\ \A t \in Threads :
             Calls(t, "flush_done")
                => /\ ~open => flushLog' = flushLog
                   /\ open => /\ flushLog' = flushLog \o Targets
                              /\ InRegistrationOrder(Targets)
                   /\ UNCHANGED <<open, Targets, entries, chans, sent, lock,
                                  targetObs>>
       /\ (\A t \in Threads : ~Calls(t, "flush_done")) => flushLog' = flushLog]_vars

\* Flush has been called on the open dispatcher with two active targets.
C14_Witness ==
    /\ open
    /\ Len(Targets) = 2
    /\ flushLog = Targets
    /\ \E t \in Threads : th[t].pc = "flush_done"

\* ------------------------------------------------------------ C15
\* C15: StartLogDetailsBlock(cat, e) leaves the target InBlock, whatever its
\* state was: DoingDetails set, Category cat, Subcategory empty, MinLogLevel
\* reset to LevelOkay.
C15_StartEntersBlock ==
    [][\A t \in Threads :
          Calls(t, "start_done")
             => di'[th'[t].idx] = [DoingDetails |-> TRUE, MinLogLevel |-> LevelOkay,
                                   Category |-> th'[t].arg, Subcategory |-> ""]]_vars

\* ------------------------------------------------------------ C16
\* The levels of the entries target g has processed since its last
\* StartLogDetailsBlock returned.
BlockLevels(g) ==
    {procLog[g][k].level : k \in {j \in (blockAt[g] + 1)..Len(procLog[g]) :
                                     IsReal(procLog[g][j])}}

\* The most severe level of a set of levels: the numerically smallest.
MostSevere(ls) == CHOOSE x \in ls : \A y \in ls : x <= y

\* C16: once a target has processed entries after a StartLogDetailsBlock, its
\* MinLogLevel is the most severe level among them.
C16_MinLogLevelTracksEntries ==
    \A g \in TargetIds :
       (blockAt[g] > 0 /\ BlockLevels(g) # {})
          => di[g].MinLogLevel = MostSevere(BlockLevels(g))

\* ------------------------------------------------------------ C17
\* C17: CloseLogDetailsBlock on a target that is InBlock clears DoingDetails and
\* the block's labels; on an Idle target it changes nothing.
C17_CloseBlockReturnsToIdle ==
    [][\A t \in Threads :
          Calls(t, "closeblock_done")
             => LET g == th'[t].idx IN
                IF di[g].DoingDetails
                THEN /\ ~di'[g].DoingDetails
                     /\ di'[g].Category = ""
                     /\ di'[g].Subcategory = ""
                ELSE di'[g] = di[g]]_vars

\* ------------------------------------------------------------ C18
\* C18: LogTextQuote returns and leaves the target's details state, labels,
\* Process calls and output as they were, in a block or not.
C18_TextQuoteFrame ==
    [][\A t \in Threads :
          Calls(t, "quote_done") => UNCHANGED <<details, procLog, written>>]_vars

\* LogTextQuote has returned on a target that is in a block.
C18_Witness ==
    \E t \in Threads :
       /\ th[t].pc = "quote_done"
       /\ di[th[t].idx].DoingDetails

\* ------------------------------------------------------------ C19
\* The targets a SetCategory or SetSubcategory call must reach: the active
\* targets of an open dispatcher that are console targets.
Labelled == {g \in TargetIds : open /\ g \in Range(Targets) /\ kind[g] = "console"}

\* C19: SetCategory(s) and SetSubcategory(s) change nothing when the dispatcher
\* is not open; when it is open they set that label, and only that label, on
\* the active targets that are DetailsTargets and leave every other target's
\* labels alone; they never change a target's block state.
C19_LabelsOnDetailsTargetsOnly ==
    [][\A t \in Threads :
          /\ Calls(t, "setcat_done")
                => /\ \A g \in TargetIds :
                         label'[g] = IF g \in Labelled
                                     THEN [label[g] EXCEPT !.Category = th'[t].arg]
                                     ELSE label[g]
                   /\ UNCHANGED <<di, blockAt, open, Targets>>
          /\ Calls(t, "setsub_done")
                => /\ \A g \in TargetIds :
                         label'[g] = IF g \in Labelled
                                     THEN [label[g] EXCEPT !.Subcategory = th'[t].arg]
                                     ELSE label[g]
                   /\ UNCHANGED <<di, blockAt, open, Targets>>]_vars

\* On an open dispatcher with a console target in a block and a plain target,
\* SetSubcategory has set the console target's subcategory; the plain target
\* has no label and the block is still open.
C19_Witness ==
    /\ open
    /\ Targets = <<1, 2>>
    /\ di[1].DoingDetails
    /\ \E t \in Threads : /\ th[t].pc = "setsub_done"
                          /\ label[1].Subcategory = th[t].arg
    /\ label[2] = NoLabel

\* ------------------------------------------------------------ C20
\* C20: GetLogger adds one Logger that shares the caller's coreLogger, carries
\* the given category and the given formatter, or the caller's formatter when
\* none is given; the caller and every other Logger, the open flag, the queue,
\* the targets and the max level stay as they were; every Logger has the one
\* coreLogger that Open and Close act on.
C20_GetLoggerSharesCore ==
    [][/\ \A t \in Threads :
             Calls(t, "getlogger_done")
                => LET caller == views[th'[t].idx]
                       given == th'[t].ch
                   IN  /\ views' = Append(views,
                                          [core |-> caller.core,
                                           Category |-> th'[t].arg,
                                           Formatter |-> IF given = NoFormatter
                                                         THEN caller.Formatter
                                                         ELSE given])
                       /\ UNCHANGED <<open, entries, chans, sent, Targets, MaxLevel,
                                      lock, loops, targetObs>>
       /\ \A v \in 1..Len(views') : views'[v].core = RootLogger.core]_vars

\* A Logger made from the root with a formatter of its own has made a third
\* Logger without naming a formatter, which has inherited that formatter, and
\* the dispatcher opened meanwhile is open.
C20_Witness ==
    /\ Len(views) = 3
    /\ views[2].Formatter = "CustomFormatter"
    /\ views[3].Formatter = "CustomFormatter"
    /\ \E t \in Threads : /\ th[t].pc = "getlogger_done"
                          /\ th[t].ch = NoFormatter
                          /\ th[t].idx = 2
    /\ open

\* ------------------------------------------------------------ C21
\* The levels of the entries of s, in order.
LevelsOf(s) == [k \in 1..Len(s) |-> s[k].level]

\* The entry carries the category of the Logger it was logged through and was
\* formatted by that Logger's formatter.
MadeByItsLogger(e) ==
    /\ e.via \in 1..Len(views)
    /\ e.Category = views[e.via].Category
    /\ e.FormattedBy = views[e.via].Formatter

FailedWrites(g) == {e \in Range(procLog[g]) : IsReal(e)} \ Range(written[g])

\* C22: a failed destination write changes nothing for the dispatcher: while
\* the delivery loop runs, the target with the failing destination is still in
\* the active set; whenever the loop is between two entries every active
\* target, the failing one and the ones after it, has had Process called with
\* every entry taken from the queue, in order; and every target with a sound
\* destination has written all of them.
C22_FailedWriteIgnored ==
    /\ \A g \in faulty :
          (FailedWrites(g) # {} /\ loops[1].pc # "done") => g \in Range(Targets)
    /\ loops[1].pc \in {"top", "parked"}
          => \A g \in Range(Targets) :
                /\ procLog[g] = Taken
                /\ g \notin faulty => written[g] = Taken

\* The first target failed to write an entry that the second target wrote,
\* and both were then called with a later entry, which the first one wrote.
C22_Witness ==
    \E e \in FailedWrites(1), k \in 1..Len(procLog[1]) :
       /\ e \in Range(written[2])
       /\ procLog[1][k].id > e.id
       /\ procLog[1][k] \in Range(written[1])
       /\ procLog[1][k] \in Range(procLog[2])
       /\ Targets = <<1, 2>>

\* C23: a newly constructed target has max level Debug, the least severe
\* level, so its filter allows an entry of every level Panic..Debug: every
\* real entry Process was called with on a target has been written by it.
C23_NewTargetAllowsEveryLevel ==
    \A g \in TargetIds :
       /\ filt[g] = LevelDebug
       /\ \A level \in AllLevels : level <= LevelDebug /\ Allow(g, Entry(0, level, 1))
       /\ \A e \in Range(procLog[g]) : IsReal(e) => e \in Range(written[g])

\* Both targets, their filters untouched since construction, have written an
\* entry of level Debug and one of level Error.
C23_Witness ==
    \A g \in TargetIds :
       /\ \E e \in Range(written[g]) : e.level = LevelDebug
       /\ \E e \in Range(written[g]) : e.level = LevelError

\* s without its last element.
Front(s) == SubSeq(s, 1, Len(s) - 1)

\* C24: on a Logger opened once there is one delivery loop and it handles one
\* entry at a time: between two entries every active target has had Process
\* called with exactly the entries taken from the queue, in queue order; while
\* an entry is being handled the targets are visited in registration order,
\* those already visited have it as their last call and the others lack only
\* it; and the loop has stopped only after taking the nil sentinel, having
\* passed it to every active target.
C24_OneEntryAtATime ==
    LET lp == loops[1] IN
    /\ \A l \in ChanIds \ {1} : loops[l].pc = "none"
    /\ lp.pc \in {"top", "parked"}
          => /\ NilEntry \notin Range(Taken)
             /\ \A g \in Range(Targets) : procLog[g] = Taken
    /\ lp.pc = "range"
          => /\ Taken # <<>> /\ lp.entry = Taken[Len(Taken)]
             /\ \A g \in Range(Targets) : procLog[g] = Front(Taken)
    /\ lp.pc \in {"proc", "tparked"}
          => /\ Taken # <<>> /\ lp.entry = Taken[Len(Taken)]
             /\ lp.tl = Targets /\ InRegistrationOrder(lp.tl)
             /\ \A k \in 1..Len(lp.tl) :
                   procLog[lp.tl[k]] =
                      IF k < lp.idx \/ (k = lp.idx /\ lp.pc = "tparked")
                      THEN Taken ELSE Front(Taken)
    /\ lp.pc = "done"
          => /\ Taken # <<>> /\ Taken[Len(Taken)] = NilEntry
             /\ NilEntry \notin Range(Front(Taken))
             /\ \A g \in Range(Targets) : procLog[g] = Taken

\* The loop is handling the second of two real entries: the first target has
\* been called with both, the second target with the first one only.
C24_Witness ==
    /\ loops[1].pc = "proc" /\ loops[1].idx = 2 /\ Targets = <<1, 2>>
    /\ Len(Taken) = 2 /\ IsReal(Taken[1]) /\ IsReal(Taken[2])
    /\ procLog[1] = Taken /\ procLog[2] = Front(Taken)

\* C25: Close sets open to false, enqueues the sentinel, waits until the
\* delivery loop has dequeued it, and only then calls Close() on the targets:
\* at every step in which a target's Close() is invoked the dispatcher is
\* marked closed, the loop has already taken the sentinel from the queue, and
\* no real entry is left in the queue.
C25_CloseOrder ==
    [][\A g \in TargetIds :
          closeCalls'[g] > closeCalls[g]
             => /\ ~open
                /\ NilEntry \in Range(Taken)
                /\ \A k \in 1..Len(chans[1].buf) : ~IsReal(chans[1].buf[k])]_vars

\* The real entries that Log calls have placed in the queue.
Enqueued == {e \in Range(sent[1]) : IsReal(e)}

\* C26: every entry a Log call has placed in the queue is passed to Process
\* of every active target before the delivery loop exits: once the loop has
\* exited, no real entry is left in the queue and every active target has been
\* called with every enqueued entry.
C26_NoEntryLeftBehind ==
    loops[1].pc = "done"
       => /\ \A k \in 1..Len(chans[1].buf) : ~IsReal(chans[1].buf[k])
          /\ \A g \in Range(Targets) : Enqueued \subseteq Range(procLog[g])

\* C27: every Log call returns: no producer is left blocked on the queue
\* after the delivery loop has exited.
C27_NoProducerLeftBlocked ==
    \A t \in Threads : th[t].pc = "log_parked" => loops[1].pc # "done"

\* C28: under fair scheduling a Close call on an open dispatcher with
\* console targets returns: a thread that has passed Close's open check
\* eventually reaches the end of Close, whatever the number of active
\* targets, the entries in the queue and the buffer size.
C28_CloseReturns ==
    \A t \in Threads : (th[t].pc = "close_set") ~> (th[t].pc = "close_done")

\* Close has reached its end with two active console targets, each of which
\* was called with a real entry and then answered the sentinel once.
C28_Witness ==
    /\ th[NumThreads].pc = "close_done"
    /\ Targets = <<1, 2>>
    /\ \A g \in TargetIds :
          /\ closeRets[g] = 1
          /\ \E e \in Range(procLog[g]) : IsReal(e)

\* Target g has been called with every entry thread t has put in the queue.
EarlierEntriesProcessed(t, g) ==
    \A k \in 1..Len(sent[1]) :
       (IsReal(sent[1][k]) /\ sent[1][k].by = t) => sent[1][k] \in Range(procLog[g])

\* C29: label changes are ordered with the entry stream: at the step in which
\* a thread's SetCategory or SetSubcategory sets the label of the active
\* details targets, or its StartLogDetailsBlock starts a block on one, that
\* target has already processed every entry the thread logged before.
C29_LabelChangeAfterEarlierEntries ==
    [][\A t \in Threads :
          /\ (Calls(t, "setcat_done") \/ Calls(t, "setsub_done"))
                => \A g \in Labelled : EarlierEntriesProcessed(t, g)
          /\ (Calls(t, "start_done") /\ th'[t].idx \in Labelled)
                => EarlierEntriesProcessed(t, th'[t].idx)]_vars
====
